---- MODULE Spec2Model ----
(***************************************************************************)
(* Model of lsm (src/main.rs): one run of main(), which creates the        *)
(* install directory, creates-or-truncates the target file, fetches the    *)
(* latest release record, picks the asset named for the host OS,           *)
(* downloads it and writes the bytes to the target file.                   *)
(***************************************************************************)
EXTENDS Integers, Sequences, FiniteSets, TLC

\* ---------------------------------------------------------------- bounds
MaxAssets == 2
MaxLen == 2

\* ------------------------------------------------------- program constants
LsName == "awesome-lsp"
LsBinName == "awesome-lsp"
LsUrl == "https://api.github.com/repos/h-michael/awesome-lsp/releases"
LinuxBinName == "awesome-lsp-linux"
MacBinName == "awesome-lsp-mac"
WinBinName == "awesome-lsp-windows.exe"

\* ------------------------------------------------------------ input sets
HostOs == {"linux", "windows", "macos"}
Byte == {127, 69}
AssetNames == {LinuxBinName, MacBinName, WinBinName, "Awesome-LSP-Linux"}
AssetUrls == {"https://example/x", "https://example/y"}
JsonNull == "<null>"
Labels == {"", JsonNull}
Tags == {"v1.2.3"}
Statuses == {200, 404}

SeqsUpTo(S, n) == UNION {[1..k -> S] : k \in 0..n}

Contents == SeqsUpTo(Byte, MaxLen)

\* A file of the install directory: present with data, or absent.
NoFile == [exists |-> FALSE, data |-> <<>>]
FileOf(d) == [exists |-> TRUE, data |-> d]

\* The response body of the latest-release request, as far as GHReleaseRes
\* reads it: a JSON text that is a release object or is not, and per asset
\* the fields name, browser_download_url and label (label may be JSON null).
RawAssets == [name : AssetNames, browser_download_url : AssetUrls, label : Labels]
Bodies == [wellformed : BOOLEAN, tag_name : Tags, assets : SeqsUpTo(RawAssets, MaxAssets)]

NoRes == [name |-> "", assets |-> <<>>]

\* GHRelease::bin_name, one definition per target_os.
bin_name(os) ==
  CASE os = "linux" -> LinuxBinName
    [] os = "windows" -> WinBinName
    [] os = "macos" -> MacBinName

\* LSInfo::bin_dir and LSInfo::bin_path, relative to the home directory.
bin_dir == <<".lsm", LsName>>
bin_path == Append(bin_dir, LsBinName)

\* format!("{}/{}", self.url, "latest")
LatestUrl == LsUrl \o "/" \o "latest"

\* serde's decoding of the body into GHReleaseRes: every non-Option field
\* must be present and of its type; label is a String, so null is rejected.
DecodeOk(body) ==
  /\ body.wellformed
  /\ \A i \in 1..Len(body.assets) : body.assets[i].label # JsonNull

\* The projection of GHReleaseRes to Res in get_release.
ToRes(body) ==
  [name |-> body.tag_name,
   assets |-> [i \in 1..Len(body.assets) |->
                 [name |-> body.assets[i].name,
                  url |-> body.assets[i].browser_download_url]]]

\* The closure of get_download_url: a.name == self.gh_release.bin_name().
NameMatches(a, os) == a.name = bin_name(os)

\* A find that keeps the last element the closure accepts.
FindAssetLast(res, os) ==
  LET hits == {i \in 1..Len(res.assets) : NameMatches(res.assets[i], os)}
  IN IF hits = {} THEN 0 ELSE CHOOSE i \in hits : \A j \in hits : i >= j

\* A find that falls back to the first asset when nothing matches.
FindAssetOrFirst(res, os) ==
  LET hits == {i \in 1..Len(res.assets) : NameMatches(res.assets[i], os)}
  IN IF hits = {}
     THEN (IF Len(res.assets) = 0 THEN 0 ELSE 1)
     ELSE CHOOSE i \in hits : \A j \in hits : i <= j

\* Iterator::find over res.assets: the index of the first element the
\* closure accepts, 0 for None.
FindAsset(res, os) ==
  LET hits == {i \in 1..Len(res.assets) : NameMatches(res.assets[i], os)}
  IN IF hits = {} THEN 0 ELSE CHOOSE i \in hits : \A j \in hits : i <= j

\* A get_bin that requests the project's release URL.
AssetRequestBase(u) == LsUrl

\* The URL get_bin requests: the one get_download_url returned.
AssetRequestUrl(u) == u

\* An open that creates the file but keeps what it holds.
TruncateKeep(d) == d

\* File::create on an existing or new file: length 0 afterwards.
Truncate(d) == <<>>

\* A single write() that stops one byte short.
WriteAtShort(old, data) ==
  LET part == SubSeq(data, 1, Len(data) - 1)
  IN part \o SubSeq(old, Len(part) + 1, Len(old))

\* write_all(data) through a handle at offset 0 of a file holding old.
WriteAt(old, data) ==
  data \o SubSeq(old, Len(data) + 1, Len(old))

\* fs::create_dir, which refuses an existing directory.
CreateDirStrict(dirExists, envOk) == ~dirExists /\ envOk

\* fs::create_dir_all on a path that is or is not a directory already:
\* TRUE when it may return Ok. An existing directory is always Ok; creating
\* one may be refused by the environment.
CreateDirAllOk(dirExists, envOk) == dirExists \/ envOk

VARIABLES hostOs, fs, fs0, pc, err, release, decoded, scanned, relStatus,
          url, offered, requests, content, round

vars == <<hostOs, fs, fs0, pc, err, release, decoded, scanned, relStatus,
          url, offered, requests, content, round>>

FsStates ==
  {[dir |-> FALSE, target |-> NoFile, other |-> NoFile]} \cup
  [dir : {TRUE},
   target : {NoFile} \cup {FileOf(d) : d \in Contents},
   other : {NoFile, FileOf(<<69>>)}]

Terminal == {"done", "failed"}

\* The state at process start; fs0 keeps the file system as it was found.
Init ==
  /\ hostOs \in HostOs
  /\ fs \in FsStates
  /\ fs0 = fs
  /\ pc = "start"
  /\ err = "none"
  /\ release = NoRes
  /\ decoded = FALSE
  /\ scanned = FALSE
  /\ relStatus = 0
  /\ url = ""
  /\ offered = {}
  /\ requests = <<>>
  /\ content = <<>>
  /\ round = 1

\* unwrap() on Err or None, or ? in main: the run ends with that error.
Abort(kind) ==
  /\ pc' = "failed"
  /\ err' = kind

\* A send() whose failure is answered by one more attempt.
RetryOnce ==
  IF Len(requests) < 2
  THEN pc' = "file_open" /\ err' = err
  ELSE Abort("Request")

\* send()? of get_release returning Err: the error leaves get_release and
\* unwrap() in get_download_url ends the run.
OnSendError == Abort("Request")

\* ls.create_bin_dir().unwrap()
CreateBinDir ==
  /\ pc = "start"
  /\ \E envOk \in BOOLEAN :
       IF CreateDirAllOk(fs.dir, envOk)
       THEN /\ fs' = [fs EXCEPT !.dir = TRUE]
            /\ pc' = "dir_done"
            /\ err' = err
       ELSE /\ Abort("CreateDir")
            /\ fs' = fs
  /\ UNCHANGED <<hostOs, fs0, release, decoded, scanned, relStatus, url,
                 offered, requests, content, round>>

\* let mut file = File::create(ls.bin_path())?
FileCreate ==
  /\ pc = "dir_done"
  /\ \E envOk \in BOOLEAN :
       IF envOk
       THEN /\ fs' = [fs EXCEPT !.target = FileOf(Truncate(fs.target.data))]
            /\ pc' = "file_open"
            /\ err' = err
       ELSE /\ Abort("FileCreate")
            /\ fs' = fs
  /\ UNCHANGED <<hostOs, fs0, release, decoded, scanned, relStatus, url,
                 offered, requests, content, round>>

\* get_release: self.client()?.get(latest).send(), up to the request
\* leaving; building the client may fail before anything is sent.
SendReleaseGet ==
  /\ pc = "file_open"
  /\ \E built \in BOOLEAN :
       IF built
       THEN /\ requests' = Append(requests, LatestUrl)
            /\ pc' = "release_inflight"
            /\ err' = err
       ELSE /\ Abort("Request")
            /\ requests' = requests
  /\ UNCHANGED <<hostOs, fs, fs0, release, decoded, scanned, relStatus, url,
                 offered, content, round>>

\* get_release: send()? returns and .json()? decodes the body. send() gives
\* Ok for every status the server answers with; the status is not looked at.
RecvRelease ==
  /\ pc = "release_inflight"
  /\ \/ /\ OnSendError
        /\ UNCHANGED <<release, decoded, relStatus, offered>>
     \/ \E st \in Statuses, body \in Bodies :
          /\ relStatus' = st
          /\ IF DecodeOk(body)
             THEN /\ release' = ToRes(body)
                  /\ decoded' = TRUE
                  /\ offered' = {body.assets[i].browser_download_url :
                                   i \in 1..Len(body.assets)}
                  /\ pc' = "release_decoded"
                  /\ err' = err
             ELSE /\ Abort("Decode")
                  /\ UNCHANGED <<release, decoded, offered>>
  /\ UNCHANGED <<hostOs, fs, fs0, scanned, url, requests, content, round>>

\* get_download_url: .assets.iter().find(..).unwrap()
ResolveAsset ==
  /\ pc = "release_decoded"
  /\ scanned' = TRUE
  /\ LET i == FindAsset(release, hostOs)
     IN IF i = 0
        THEN /\ Abort("AssetNotFound")
             /\ url' = url
        ELSE /\ url' = release.assets[i].url
             /\ pc' = "url_found"
             /\ err' = err
  /\ UNCHANGED <<hostOs, fs, fs0, release, decoded, relStatus, offered,
                 requests, content, round>>

\* get_download_url returns the clone and drops the release; get_bin builds
\* a client and sends the GET for the returned URL.
SendAssetGet ==
  /\ pc = "url_found"
  /\ release' = NoRes
  /\ \E built \in BOOLEAN :
       IF built
       THEN /\ requests' = Append(requests, AssetRequestUrl(url))
            /\ pc' = "asset_inflight"
            /\ err' = err
       ELSE /\ Abort("Download")
            /\ requests' = requests
  /\ UNCHANGED <<hostOs, fs, fs0, decoded, scanned, relStatus, url, offered,
                 content, round>>

\* get_bin: send().unwrap().bytes().unwrap(); the body of whatever status.
RecvAsset ==
  /\ pc = "asset_inflight"
  /\ \/ /\ Abort("Download")
        /\ content' = content
     \/ \E st \in Statuses, b \in Contents :
          /\ content' = b
          /\ pc' = "downloaded"
          /\ err' = err
  /\ UNCHANGED <<hostOs, fs, fs0, release, decoded, scanned, relStatus, url,
                 offered, requests, round>>

\* file.write_all(&content)?; Ok(()): all bytes written, or an error after
\* a proper prefix of them has been.
WriteAll ==
  /\ pc = "downloaded"
  /\ \/ /\ fs' = [fs EXCEPT !.target = FileOf(WriteAt(fs.target.data, content))]
        /\ pc' = "done"
        /\ err' = err
     \/ \E k \in 0..(Len(content) - 1) :
          /\ fs' = [fs EXCEPT !.target =
                      FileOf(WriteAt(fs.target.data, SubSeq(content, 1, k)))]
          /\ Abort("Write")
  /\ UNCHANGED <<hostOs, fs0, release, decoded, scanned, relStatus, url,
                 offered, requests, content, round>>

Next ==
  \/ CreateBinDir
  \/ FileCreate
  \/ SendReleaseGet
  \/ RecvRelease
  \/ ResolveAsset
  \/ SendAssetGet
  \/ RecvAsset
  \/ WriteAll

Spec == Init /\ [][Next]_vars

\* ----------------------------------------------------------------------
\* The install steps of main (create_bin_dir, File::create, write_all)
\* performed MaxRounds times with one given content; fs0 keeps the file
\* system as the previous round left it.
MaxRounds == 2

InitInstall ==
  /\ hostOs \in HostOs
  /\ fs \in FsStates
  /\ fs0 = fs
  /\ pc = "start"
  /\ err = "none"
  /\ release = NoRes
  /\ decoded = FALSE
  /\ scanned = FALSE
  /\ relStatus = 0
  /\ url = ""
  /\ offered = {}
  /\ requests = <<>>
  /\ content \in Contents
  /\ round = 1

\* let content = ...: the same bytes are at hand in every round.
GivenContent ==
  /\ pc = "file_open"
  /\ pc' = "downloaded"
  /\ UNCHANGED <<hostOs, fs, fs0, err, release, decoded, scanned, relStatus,
                 url, offered, requests, content, round>>

\* The install steps are started once more on the file system as it is.
InstallAgain ==
  /\ pc = "done"
  /\ round < MaxRounds
  /\ round' = round + 1
  /\ fs0' = fs
  /\ pc' = "start"
  /\ UNCHANGED <<hostOs, fs, err, release, decoded, scanned, relStatus, url,
                 offered, requests, content>>

NextInstall ==
  \/ CreateBinDir
  \/ FileCreate
  \/ GivenContent
  \/ WriteAll
  \/ InstallAgain

SpecInstall == InitInstall /\ [][NextInstall]_vars

\* ======================================================================
\* Properties
\* ======================================================================

\* The indices of the assets of res named as the host OS expects.
Matches(res) == {i \in 1..Len(res.assets) : res.assets[i].name = bin_name(hostOs)}

IsPrefix(p, q) == Len(p) <= Len(q) /\ p = SubSeq(q, 1, Len(p))

\* C1: a run that fails before the download completes (release request,
\* decoding, asset lookup or download failed) leaves the target file as it
\* was before the run: still absent, or present with unchanged content.
C1_FailureLeavesTargetUntouched ==
  (pc = "failed" /\ err \in {"Request", "Decode", "AssetNotFound", "Download"})
    => fs.target = fs0.target

\* C2: when the decoded release has an asset named exactly as the host OS
\* expects, resolution yields the URL of the first such asset in list
\* order, and the asset request is made for that URL and no other.
C2_FirstMatchUrlRequested ==
  /\ (scanned /\ err \in {"none", "AssetNotFound"} /\ Matches(release) # {})
       => /\ pc = "url_found"
          /\ \E i \in Matches(release) :
               /\ \A j \in Matches(release) : i <= j
               /\ url = release.assets[i].url
  /\ Len(requests) = 2 => requests[2] = url

C2_Witness ==
  /\ pc = "url_found"
  /\ Cardinality(Matches(release)) >= 2
  /\ \E i, j \in Matches(release) : release.assets[i].url # release.assets[j].url

\* C3: a latest-release response with a status other than 200 ends the run
\* with an HTTP error before the assets are scanned and before any asset
\* request, whatever the body holds.
C3_NonOkStatusEndsRun ==
  (relStatus # 0 /\ relStatus # 200)
    => /\ pc = "failed"
       /\ err = "HttpError"
       /\ ~scanned
       /\ Len(requests) <= 1

\* C4: when no asset of the decoded release (the empty list included) is
\* named as the host OS expects, resolution fails with asset-not-found,
\* issues no request, and the failed run takes no further step.
C4_NoMatchNoDownload ==
  [][ /\ (pc = "release_decoded" /\ Matches(release) = {})
          => (pc' = "failed" /\ err' = "AssetNotFound" /\ requests' = requests)
      /\ pc # "failed" ]_vars

C4_Witness ==
  /\ pc = "failed"
  /\ err = "AssetNotFound"
  /\ Len(release.assets) > 0
  /\ Len(requests) = 1

\* C5: after a successful run the target file holds exactly the downloaded
\* bytes, whatever the file held before the run.
C5_SuccessWritesContentVerbatim ==
  pc = "done" => (fs.dir /\ fs.target = FileOf(content))

C5_Witness ==
  /\ pc = "done"
  /\ round = 1
  /\ content # <<>>
  /\ fs0.target.exists
  /\ Len(fs0.target.data) > Len(content)

\* C6: performing the install steps a second time with the same content
\* ends in the file system the first time ended in: the target file holding
\* exactly that content, everything else as it was.
C6_InstallIdempotent ==
  (round >= 2 /\ pc = "done")
    => (fs = fs0 /\ fs.target = FileOf(content))

C6_Witness ==
  /\ round = 2
  /\ pc = "done"
  /\ content # <<>>
  /\ fs.other.exists

\* C7: when the install directory exists at the start of the run, creating it
\* does not fail, and the other file of the directory is the same in every
\* state of the run.
C7_ExistingDirKept ==
  fs0.dir => (err # "CreateDir" /\ fs.dir /\ fs.other = fs0.other)

C7_Witness ==
  /\ fs0.dir
  /\ fs0.other.exists
  /\ fs0.target.exists
  /\ pc = "done"
  /\ fs.target # fs0.target

\* C8: the asset request is issued only after the latest-release request has
\* been answered, decoded and scanned with a match, and it asks for a URL of
\* that release; while the latest-release request is in flight it is the only
\* request issued.
C8_RequestsOrdered ==
  /\ Len(requests) <= 2
  /\ Len(requests) >= 1
       => requests[1] = "https://api.github.com/repos/h-michael/awesome-lsp/releases/latest"
  /\ pc = "release_inflight" => Len(requests) = 1
  /\ pc = "asset_inflight" => Len(requests) = 2
  /\ Len(requests) = 2
       => /\ relStatus # 0
          /\ decoded
          /\ scanned
          /\ requests[2] \in offered

C8_Witness ==
  /\ pc = "asset_inflight"
  /\ Cardinality(offered) = 2

\* What has and has not been done when the run failed with each error.
C9_FailureStopsPipeline ==
  /\ err = "CreateDir" => (fs = fs0 /\ requests = <<>>)
  /\ err = "FileCreate" => (fs.target = fs0.target /\ requests = <<>>)
  /\ err = "Request" => (Len(requests) <= 1 /\ ~decoded /\ ~scanned)
  /\ err = "Decode" => (Len(requests) = 1 /\ ~decoded /\ ~scanned)
  /\ err = "AssetNotFound" => (Len(requests) = 1 /\ url = "")
  /\ err \in {"Request", "Decode", "AssetNotFound", "Download"}
       => (fs.target.data = <<>> /\ content = <<>>)
  /\ err = "Write" => (Len(requests) = 2 /\ fs.target.data # content)

\* The position of a step of main in the pipeline.
Rank(p) ==
  CASE p = "start" -> 0
    [] p = "dir_done" -> 1
    [] p = "file_open" -> 2
    [] p = "release_inflight" -> 3
    [] p = "release_decoded" -> 4
    [] p = "url_found" -> 5
    [] p = "asset_inflight" -> 6
    [] p = "downloaded" -> 7
    [] p = "done" -> 8
    [] p = "failed" -> 8

\* C9: each of the two requests is issued at most once; a failed step ends
\* the run in the failure state with nothing after it executed; every step
\* moves the run forward in the pipeline, a step is possible exactly until a
\* terminal state is reached, and the success state is reached only with
\* the file written.
C9_NoRetryOneTerminalState ==
  /\ [](/\ Len(requests) <= 2
        /\ \A i, j \in 1..Len(requests) : requests[i] = requests[j] => i = j
        /\ (pc = "failed") <=> (err # "none")
        /\ pc = "done" => (Len(requests) = 2 /\ fs.target = FileOf(content))
        /\ C9_FailureStopsPipeline
        /\ (pc \in Terminal) <=> ~ENABLED Next)
  /\ [][pc \notin Terminal /\ Rank(pc') > Rank(pc)]_vars

C9_Witness ==
  /\ pc = "failed"
  /\ err = "Request"
  /\ Len(requests) = 1

\* C10: whenever a request has been issued the install directory and the
\* target file exist; while a request is in flight the file is empty; and
\* the file is non-empty after a request only through the write of the
\* downloaded bytes.
C10_FileOpenedBeforeRequests ==
  /\ requests # <<>> => (fs.dir /\ fs.target.exists)
  /\ pc \in {"release_inflight", "asset_inflight"} => fs.target = FileOf(<<>>)
  /\ (requests # <<>> /\ fs.target.data # <<>>)
       => /\ pc = "done" \/ err = "Write"
          /\ Len(requests) = 2
          /\ IsPrefix(fs.target.data, content)

C10_Witness ==
  /\ pc = "asset_inflight"
  /\ fs0.target.exists
  /\ fs0.target.data # <<>>

====
